---- MODULE Spec2Model ----
(***************************************************************************)
(* Model of the content-normalisation pipeline of                          *)
(* src/app/api/fetch/content.ts: fetchContentFromURL, its helpers          *)
(* isYouTubeLink, getYouTubeSubtitles, htmlToMarkdown,                     *)
(* removeCommentsAndTables, and getPDFContentFromBuffer.                   *)
(*                                                                         *)
(* URLs and content-type headers are sequences of one-character strings,   *)
(* so that the regular expression, the query-string lookup and             *)
(* String.includes are computed character by character.  HTML bodies are   *)
(* sequences of lexical tokens (tags, comments, text runs), parsed into a  *)
(* tree of nodes as rehype-parse does.                                     *)
(***************************************************************************)
EXTENDS Integers, Sequences, FiniteSets, TLC

----------------------------------------------------------------------------
(* Bounds of the model.                                                    *)

\* number of fetchContentFromURL invocations that may be in flight at once
NumCalls == 2
\* longest transcript the captions provider returns
MaxSegments == 2

----------------------------------------------------------------------------
(* Character strings.                                                      *)

RECURSIVE SumLen(_)
\* total number of characters of a sequence of string pieces
SumLen(pieces) ==
    IF pieces = <<>> THEN 0 ELSE Len(Head(pieces)) + SumLen(Tail(pieces))

\* s.startsWith(lit, p): lit occurs in s at (1-based) position p
MatchAt(s, p, lit) ==
    /\ p >= 1
    /\ p + Len(lit) - 1 <= Len(s)
    /\ \A k \in 1..Len(lit) : s[p + k - 1] = lit[k]

\* String.prototype.includes
Includes(s, sub) == \E p \in 1..(Len(s) + 1) : MatchAt(s, p, sub)

\* first position of character c in s at or after position from, 0 if none
IndexFrom(s, c, from) ==
    LET hits == {p \in from..Len(s) : s[p] = c}
    IN  IF hits = {} THEN 0 ELSE CHOOSE p \in hits : \A q \in hits : p <= q

\* s.substring(a - 1, b): characters a..b of s (empty when a > b)
Sub(s, a, b) == IF a > b THEN <<>> ELSE SubSeq(s, a, b)

----------------------------------------------------------------------------
(* The URLs and headers the model draws its inputs from.                   *)

ChHttps   == <<"h","t","t","p","s",":","/","/">>
ChWww     == <<"w","w","w",".">>
ChYoutube == <<"y","o","u","t","u","b","e",".","c","o","m">>
ChYoutuBe == <<"y","o","u","t","u",".","b","e">>
ChExample == <<"e","x",".","c","o","m">>
ChWatch   == <<"/","w","a","t","c","h">>
ChQV      == <<"?","v","=">>

UrlWatchWww   == ChHttps \o ChWww \o ChYoutube \o ChWatch \o ChQV \o <<"a","b">>
UrlWatch      == ChHttps \o ChYoutube \o ChWatch \o ChQV \o <<"a","b">>
UrlWatchAmp   == ChHttps \o ChYoutube \o ChWatch \o <<"?","t","=","1","&","v","=","a","b">>
UrlWatchEmpty == ChHttps \o ChYoutube \o ChWatch \o ChQV
UrlWatchHash  == ChHttps \o ChYoutube \o ChWatch \o <<"#">> \o ChQV \o <<"a","b">>
UrlList       == ChHttps \o ChWww \o ChYoutube \o <<"/","p","?","l","=","x">>
UrlShort      == ChHttps \o ChYoutuBe \o <<"/","a","b">>
UrlShortEmpty == ChHttps \o ChYoutuBe \o <<"/">>
UrlBare       == ChYoutuBe \o <<"/","a","b">>
UrlPage       == ChHttps \o ChExample \o <<"/","p">>
UrlPdf        == ChHttps \o ChExample \o <<"/","a",".","p","d","f">>

URLS == { UrlWatchWww, UrlWatch, UrlWatchAmp, UrlWatchEmpty, UrlWatchHash,
          UrlList, UrlShort, UrlShortEmpty, UrlBare, UrlPage, UrlPdf }

ChTextHtml == <<"t","e","x","t","/","h","t","m","l">>
ChAppPdf   == <<"a","p","p","l","i","c","a","t","i","o","n","/","p","d","f">>
ChCharset  == <<";","u","t","f","8">>
CtJson     == <<"a","p","p","l","i","c","a","t","i","o","n","/","j","s","o","n">>
CtUpper    == <<"T","E","X","T","/","H","T","M","L">>

\* a value that may be null: searchParams.get and headers.get return these
Null == [has |-> FALSE, value |-> <<>>]
Some(v) == [has |-> TRUE, value |-> v]

\* the content-type headers a response can carry; Null is a response
\* without the header
CONTENT_TYPES ==
    { Null, Some(ChTextHtml), Some(ChTextHtml \o ChCharset), Some(ChAppPdf),
      Some(ChAppPdf \o ChCharset), Some(CtJson), Some(CtUpper),
      Some(ChAppPdf \o <<",">> \o ChTextHtml) }

----------------------------------------------------------------------------
(* isYouTubeLink (content.ts 18-21).                                       *)
(* The pattern is run as a position automaton: each step maps the set of   *)
(* positions where a match of the prefix can end to the set for the        *)
(* longer prefix.  Positions are 1-based indices of the next character.    *)

\* a literal
ReLit(s, P, lit) == {p + Len(lit) : p \in {q \in P : MatchAt(s, q, lit)}}

\* "." : any character but a line terminator
ReAny(s, P) == {p + 1 : p \in {q \in P : q <= Len(s) /\ s[q] # "\n"}}

\* /^(http(s)?:\/\/)?((w){3}.)?youtu(be|.be)?(\.com)?\/.+/
YouTubePatternEnds(url) ==
    LET p0 == {1}
        http   == ReLit(url, p0, <<"h","t","t","p">>)
        https  == http \cup ReLit(url, http, <<"s">>)
        p1 == p0 \cup ReLit(url, https, <<":","/","/">>)
        p2 == p1 \cup ReAny(url, ReLit(url, p1, <<"w","w","w">>))
        p3 == ReLit(url, p2, <<"y","o","u","t","u">>)
        p4 == p3 \cup ReLit(url, p3, <<"b","e">>)
                 \cup ReLit(url, ReAny(url, p3), <<"b","e">>)
        p5 == p4 \cup ReLit(url, p4, <<".","c","o","m">>)
        p6 == ReLit(url, p5, <<"/">>)
    IN  ReAny(url, p6)

\* the pattern with ".*" for ".+": nothing need follow the slash
isYouTubeLinkAnyPath(url) ==
    LET ends == YouTubePatternEnds(url \o <<"x">>)
    IN  ends # {}

isYouTubeLink(url) == YouTubePatternEnds(url) # {}

----------------------------------------------------------------------------
(* new URL(url).searchParams.get("v") (content.ts 24).                     *)

IsLetter(c) ==
    c \in {"a","b","c","d","e","f","g","h","i","j","k","l","m","n","o","p",
           "q","r","s","t","u","v","w","x","y","z"}

\* new URL(url) without a base throws a TypeError unless url starts with a
\* scheme (letters up to the first ":")
UrlParses(url) ==
    LET colon == IndexFrom(url, ":", 1)
    IN  /\ colon > 1
        /\ \A k \in 1..(colon - 1) : IsLetter(url[k])

\* the query of a URL: what follows the first "?" up to the fragment; a "?"
\* behind the first "#" belongs to the fragment
UrlQuery(url) ==
    LET hash == IndexFrom(url, "#", 1)
        stop == IF hash = 0 THEN Len(url) ELSE hash - 1
        q    == IndexFrom(url, "?", 1)
    IN  IF q = 0 \/ q > stop THEN <<>> ELSE Sub(url, q + 1, stop)

RECURSIVE QueryGet(_, _)
\* URLSearchParams.get: the value of the first name=value pair, in the
\* "&"-separated query, whose name is the one asked for; Null if none
QueryGet(query, name) ==
    IF query = <<>> THEN Null
    ELSE LET amp  == IndexFrom(query, "&", 1)
             pair == IF amp = 0 THEN query ELSE Sub(query, 1, amp - 1)
             rest == IF amp = 0 THEN <<>> ELSE Sub(query, amp + 1, Len(query))
             eq   == IndexFrom(pair, "=", 1)
             key  == IF eq = 0 THEN pair ELSE Sub(pair, 1, eq - 1)
             val  == IF eq = 0 THEN <<>> ELSE Sub(pair, eq + 1, Len(pair))
         IN  IF pair # <<>> /\ key = name THEN Some(val)
             ELSE QueryGet(rest, name)

\* const videoId = new URL(url).searchParams.get("v")
getVideoId(url) == QueryGet(UrlQuery(url), <<"v">>)

\* the check of the video id left out
NoVideoIdUnchecked(videoId) == FALSE

\* !videoId : null and the empty string are both falsy
NoVideoId(videoId) == ~videoId.has \/ videoId.value = <<>>

----------------------------------------------------------------------------
(* Text values.  A text (srtContent, markdown, pdf text) is a sequence of  *)
(* string pieces; its length is the sum of the lengths of the pieces.      *)

\* String.prototype.length of a text
Length(text) == SumLen(text)

\* String.prototype.replace(from, to) with a one-character pattern: only the
\* first occurrence is replaced
ReplaceFirst(text, from, to) ==
    LET at == IndexFrom(text, from, 1)
    IN  IF at = 0 THEN text ELSE [text EXCEPT ![at] = to]

Pad2(n) == IF n < 10 THEN "0" \o ToString(n) ELSE ToString(n)
Pad3(n) == IF n < 10 THEN "00" \o ToString(n)
           ELSE IF n < 100 THEN "0" \o ToString(n) ELSE ToString(n)

----------------------------------------------------------------------------
(* getYouTubeSubtitles, the serialisation loop (content.ts 30-41).         *)

\* milliseconds in a day: Date keeps a calendar instant, and the time-of-day
\* fields of toISOString() are those of the instant within its UTC day
MsPerDay == 86400000

\* new Date(ms).toISOString().substring(11, 23), "HH:MM:SS.mmm", for an
\* integral ms >= 0
IsoTimeOfDay(ms) ==
    LET t == ms % MsPerDay
    IN  << Pad2(t \div 3600000), ":", Pad2((t \div 60000) % 60), ":",
           Pad2((t \div 1000) % 60), ".", Pad3(t % 1000) >>

\* the template literal of lines 36-39 for the item at (0-based) index
SrtCue(item, index) ==
    LET start == IsoTimeOfDay(item.offset)
        end   == IsoTimeOfDay(item.offset + item.duration)
    IN  <<ToString(index + 1), "\n">> \o ReplaceFirst(start, ".", ",")
          \o <<" --> ">> \o ReplaceFirst(end, ".", ",")
          \o <<"\n", item.text, "\n\n">>

RECURSIVE SrtAppend(_, _, _)
\* transcript.forEach from index on, appending to srtContent
SrtAppend(transcript, index, srtContent) ==
    IF index >= Len(transcript) THEN srtContent
    ELSE SrtAppend(transcript, index + 1,
                   srtContent \o SrtCue(transcript[index + 1], index))

\* let srtContent = ""; transcript.forEach(...); return srtContent
SrtFromTranscript(transcript) == SrtAppend(transcript, 0, <<>>)

\* the segments the captions provider can return (offset and duration in ms)
SEGMENTS ==
    { [offset |-> 0,        duration |-> 1000, text |-> "Hi"],
      [offset |-> 3661001,  duration |-> 2500, text |-> "yo"],
      [offset |-> 86399000, duration |-> 2000, text |-> "late"],
      [offset |-> 90000000, duration |-> 0,    text |-> "Hi"] }

TRANSCRIPTS == UNION {[1..n -> SEGMENTS] : n \in 0..MaxSegments}

----------------------------------------------------------------------------
(* HTML bodies.  A body is a sequence of lexical tokens; a document tree   *)
(* is made of nodes with the fields of a hast node.                        *)

TOpen(tag)  == [k |-> "open",    tag |-> tag, v |-> ""]
TClose(tag) == [k |-> "close",   tag |-> tag, v |-> ""]
TComment(v) == [k |-> "comment", tag |-> "",  v |-> v]
TText(v)    == [k |-> "text",    tag |-> "",  v |-> v]

\* the characters a token takes in the body: <tag>, </tag>, <!--v-->, v
TokenLength(t) ==
    CASE t.k = "open"    -> Len(t.tag) + 2
      [] t.k = "close"   -> Len(t.tag) + 3
      [] t.k = "comment" -> Len(t.v) + 7
      [] OTHER           -> Len(t.v)

RECURSIVE HtmlLength(_)
\* htmlContent.length
HtmlLength(html) ==
    IF html = <<>> THEN 0 ELSE TokenLength(Head(html)) + HtmlLength(Tail(html))

Element(tagName, children) ==
    [type |-> "element", tagName |-> tagName, value |-> "", children |-> children]
Text(value) ==
    [type |-> "text", tagName |-> "", value |-> value, children |-> <<>>]
Comment(value) ==
    [type |-> "comment", tagName |-> "", value |-> value, children |-> <<>>]
Root(children) ==
    [type |-> "root", tagName |-> "", value |-> "", children |-> children]

AppendChild(node, child) ==
    [node EXCEPT !.children = Append(node.children, child)]

\* the open element on top of the stack is closed and becomes the last
\* child of the one below it
PopOpen(stack) ==
    LET n == Len(stack)
    IN  Append(SubSeq(stack, 1, n - 2), AppendChild(stack[n - 1], stack[n]))

RECURSIVE CloseAll(_)
CloseAll(stack) == IF Len(stack) = 1 THEN stack[1] ELSE CloseAll(PopOpen(stack))

RECURSIVE ParseBody(_, _)
\* the tree builder of rehype-parse, in document mode, for the body: html,
\* head and body tags are merged into the elements the parser supplies, an
\* end tag that does not match the current element is ignored, and elements
\* still open at the end of input are closed there
ParseBody(tokens, stack) ==
    IF tokens = <<>> THEN CloseAll(stack)
    ELSE LET t   == Head(tokens)
             n   == Len(stack)
             top == stack[n]
         IN  CASE t.tag \in {"html", "head", "body"} ->
                    ParseBody(Tail(tokens), stack)
               [] t.k = "open" ->
                    ParseBody(Tail(tokens), Append(stack, Element(t.tag, <<>>)))
               [] t.k = "close" ->
                    IF n > 1 /\ top.tagName = t.tag
                    THEN ParseBody(Tail(tokens), PopOpen(stack))
                    ELSE ParseBody(Tail(tokens), stack)
               [] t.k = "comment" ->
                    ParseBody(Tail(tokens),
                              [stack EXCEPT ![n] = AppendChild(top, Comment(t.v))])
               [] OTHER ->
                    ParseBody(Tail(tokens),
                              [stack EXCEPT ![n] = AppendChild(top, Text(t.v))])

\* unified().use(parse): root > html > (head, body > content)
ParseHtml(html) ==
    Root(<< Element("html",
              << Element("head", <<>>),
                 ParseBody(html, <<Element("body", <<>>)>>) >>) >>)

----------------------------------------------------------------------------
(* removeCommentsAndTables (content.ts 11-16) and unist-util-remove.       *)

\* a test given as an object of properties ({type: "comment"}) passes on
\* the nodes whose property has that value
Passes(node, test) == node[test.key] = test.value

RECURSIVE Preorder(_, _, _)
\* remove()'s walk, as of unist-util-remove 4 (the named export the file
\* imports), which never drops the tree's root.  Yields [keep, node]: keep is FALSE when the node is to
\* be dropped from its parent.  A node that passes the test is dropped; so
\* is, by the default cascade, a node other than the tree's root that had
\* children and lost all of them.  Kept nodes keep their kept children.
Preorder(node, isRoot, test) ==
    IF ~isRoot /\ Passes(node, test) THEN [keep |-> FALSE, node |-> node]
    ELSE LET walked == [k \in 1..Len(node.children) |->
                           Preorder(node.children[k], FALSE, test)]
             kept   == SelectSeq(walked, LAMBDA w : w.keep)
             newCh  == [k \in 1..Len(kept) |-> kept[k].node]
         IN  IF Len(node.children) > 0 /\ ~isRoot /\ Len(kept) = 0
             THEN [keep |-> FALSE, node |-> node]
             ELSE [keep |-> TRUE, node |-> [node EXCEPT !.children = newCh]]

\* remove(tree, test): the tree is changed in place
Remove(tree, test) == Preorder(tree, TRUE, test).node

\* only the comments removed
removeCommentsOnly(tree) == Remove(tree, [key |-> "type", value |-> "comment"])

\* remove(tree, {type: "comment"}); remove(tree, {tagName: "table"})
removeCommentsAndTables(tree) ==
    Remove(Remove(tree, [key |-> "type", value |-> "comment"]),
           [key |-> "tagName", value |-> "table"])

----------------------------------------------------------------------------
(* htmlToMarkdown (content.ts 44-53): rehype-remark and remark-stringify.  *)

\* phrasing content; everything else is flow content
IsInline(node) ==
    \/ node.type = "text"
    \/ node.type = "element" /\ node.tagName \in {"b", "span"}

RECURSIVE HasTable(_)
\* remark-stringify has no handler for the table that rehype-remark makes
\* of a <table>: the processor throws on a tree that still holds one
HasTable(node) ==
    \/ node.tagName = "table"
    \/ \E k \in 1..Len(node.children) : HasTable(node.children[k])

RECURSIVE MdInline(_)
\* the markdown of phrasing content: text as it is, <b> as strong
MdInline(node) ==
    LET inner == [k \in 1..Len(node.children) |-> MdInline(node.children[k])]
        RECURSIVE Cat(_)
        Cat(ss) == IF ss = <<>> THEN <<>> ELSE Head(ss) \o Cat(Tail(ss))
    IN  CASE node.type = "text" -> <<node.value>>
          [] node.tagName = "b" -> <<"**">> \o Cat(inner) \o <<"**">>
          [] OTHER              -> Cat(inner)

RECURSIVE MdFlow(_, _, _)
\* the blocks of a sequence of children from child k on: a run of phrasing
\* content becomes one paragraph, a comment becomes an html block, a flow
\* element gives the blocks of its children, <head> gives none
MdFlow(children, k, run) ==
    LET flush == IF run = <<>> THEN <<>> ELSE <<run>>
    IN  IF k > Len(children) THEN flush
        ELSE LET c == children[k]
             IN  IF IsInline(c)
                 THEN MdFlow(children, k + 1, run \o MdInline(c))
                 ELSE flush
                      \o (CASE c.type = "comment" -> << <<"<!--", c.value, "-->">> >>
                            [] c.tagName = "head" -> <<>>
                            [] OTHER -> MdFlow(c.children, 1, <<>>))
                      \o MdFlow(children, k + 1, <<>>)

RECURSIVE JoinBlocks(_)
\* blocks are separated by a blank line
JoinBlocks(blocks) ==
    IF Len(blocks) = 0 THEN <<>>
    ELSE IF Len(blocks) = 1 THEN blocks[1]
    ELSE blocks[1] \o <<"\n\n">> \o JoinBlocks(Tail(blocks))

\* remark-stringify: the blocks, then a final line feed unless there is
\* nothing at all
Stringify(tree) ==
    LET blocks == MdFlow(tree.children, 1, <<>>)
    IN  IF blocks = <<>> THEN <<>> ELSE JoinBlocks(blocks) \o <<"\n">>

\* the tree the processor stringifies: parse, then the pruning plugin
PrunedTree(html) == removeCommentsAndTables(ParseHtml(html))

\* processor.process(html) throws
ConversionThrows(html) == HasTable(PrunedTree(html))

\* String(file)
htmlToMarkdown(html) == Stringify(PrunedTree(html))

\* the bodies a response can carry: paragraphs, divisions, emphasis, tables
\* and comments, nested, empty and unclosed.  Elements whose text
\* rehype-remark itself leaves out (script, style, title) do not occur.
DocHello   == << TOpen("html"), TOpen("body"), TOpen("p"), TText("Hello"),
                 TClose("p"), TOpen("table"), TOpen("tr"), TOpen("td"),
                 TText("X"), TClose("td"), TClose("tr"), TClose("table"),
                 TClose("body"), TClose("html") >>
DocComment == << TComment("c"), TOpen("p"), TText("Hello"), TClose("p") >>
DocDeep    == << TOpen("div"), TOpen("p"), TText("A"), TComment("c"),
                 TClose("p"), TOpen("div"), TOpen("table"), TOpen("td"),
                 TText("X"), TClose("td"), TClose("table"), TClose("div"),
                 TText("Z"), TClose("div") >>
DocNested  == << TOpen("table"), TOpen("td"), TOpen("table"), TOpen("td"),
                 TText("X"), TClose("td"), TClose("table"), TComment("c"),
                 TText("Y"), TClose("td"), TClose("table"), TText("Z") >>
DocTable   == << TOpen("table"), TOpen("td"), TText("X"), TClose("td"),
                 TClose("table") >>
DocSame    == << TOpen("p"), TText("X"), TClose("p"), TOpen("table"),
                 TOpen("td"), TText("X"), TClose("td"), TClose("table") >>
DocBold    == << TOpen("p"), TOpen("b"), TText("B"), TClose("b"),
                 TComment("B"), TClose("p") >>
DocOpen    == << TOpen("div"), TOpen("p"), TText("A"), TOpen("table"),
                 TText("X") >>
DocText    == << TText("Hello") >>
DocEmpty   == << >>

DOCS == { DocHello, DocComment, DocDeep, DocNested, DocTable, DocSame,
          DocBold, DocOpen, DocText, DocEmpty }

----------------------------------------------------------------------------
(* pdf-parse.                                                              *)

\* the buffers a PDF fetch or an upload can hand over; pdf() throws on one
\* that is no PDF and resolves to the document's text on one that is
BUFFERS ==
    { [valid |-> TRUE,  text |-> <<"Page one", "\n\n", "Page two">>],
      [valid |-> TRUE,  text |-> <<>>],
      [valid |-> FALSE, text |-> <<>>] }

\* pdf(pdfBuffer) rejects
PdfThrows(pdfBuffer) == ~pdfBuffer.valid

\* (await pdf(pdfBuffer)).text
PdfText(pdfBuffer) == pdfBuffer.text

----------------------------------------------------------------------------
(* The state: the invocations of fetchContentFromURL and of                *)
(* getPDFContentFromBuffer that are in flight.                             *)

Calls == 1..NumCalls

VARIABLES
    pc,       \* where each invocation is suspended: "idle" (not started),
              \* "fetch", "transcript", "text", "axios", "parse", "done"
    locals,   \* the activation records: url, response, pdfBuffer
    outcome,  \* what each invocation's promise settled to
    log,      \* per invocation, the steps it took, in order
    got,      \* per invocation, what its external calls answered, in order
    arg,      \* per invocation, the argument it was called with
    met       \* per invocation, the invocations that were suspended at an
              \* await at the moment it settled

\* the state of the Chat component (chat.tsx) and of the session it shows
VARIABLES
    messages,           \* session.messages of the current session
    mounted,            \* the first render's effects have run
    sweep,              \* what the effect on mount saw: the clock and the
                        \* messages before it
    userInput,          \* the text in the input box
    temporaryURLInput,  \* the URL whose loading preview is shown, or ""
    submissions,        \* the chatStore.onUserInput promises not yet settled
    submitted,          \* how many submissions doSubmit has started
    created,            \* how many messages the session was ever given
    msgRenderIndex,     \* where the rendered window of messages starts
    autoScroll          \* whether the message list follows its bottom

chatVars == <<messages, mounted, sweep, userInput, temporaryURLInput,
              submissions, submitted, created, msgRenderIndex, autoScroll>>

serverVars == <<pc, locals, outcome, log, got, arg, met>>

vars == <<pc, locals, outcome, log, got, arg, met,
          messages, mounted, sweep, userInput, temporaryURLInput,
          submissions, submitted, created, msgRenderIndex, autoScroll>>

\* the responses fetch() can resolve to: status class and content-type header
RESPONSES == [ok : BOOLEAN, header : CONTENT_TYPES]

NoResponse == [ok |-> FALSE, header |-> Null]
NoBuffer   == [valid |-> FALSE, text |-> <<>>]
NoLocals   == [url |-> <<>>, response |-> NoResponse, pdfBuffer |-> NoBuffer]

Pending == [kind |-> "pending", url |-> <<>>, content |-> <<>>, size |-> 0,
            type |-> "", message |-> ""]

\* a URLDetailContent
Content(url, content, size, type) ==
    [kind |-> "content", url |-> url, content |-> content, size |-> size,
     type |-> type, message |-> ""]

\* the record of getPDFContentFromBuffer, which has no url
BufferContent(content, size, type) ==
    [kind |-> "buffer", url |-> <<>>, content |-> content, size |-> size,
     type |-> type, message |-> ""]

\* a rejection with an Error of this message
Failure(message) ==
    [kind |-> "error", url |-> <<>>, content |-> <<>>, size |-> 0,
     type |-> "", message |-> message]

FetchFailure    == "Failure fetching content from provided URL"
InvalidInput    == "Invalid YouTube URL"
UnsupportedType == "URL provided is not a PDF or HTML document"
\* errors of the collaborators, passed on unchanged
InvalidURL            == "TypeError: Invalid URL"
NetworkError          == "fetch failed"
TranscriptUnavailable == "transcript provider failed"
BodyReadFailure       == "body read failed"
ConversionFailure     == "html conversion failed"
AxiosError            == "axios request failed"
PdfParseFailure       == "pdf parse failed"

\* what one external call answered: a rejection, or a value
Answer(call, rejected, value) ==
    [call |-> call, rejected |-> rejected, value |-> value]

\* no invocation of the route has started
Idle ==
    /\ pc = [i \in Calls |-> "idle"]
    /\ locals = [f \in Calls |-> NoLocals]
    /\ outcome = [i \in Calls |-> Pending]
    /\ log = [i \in Calls |-> <<>>]
    /\ got = [i \in Calls |-> <<>>]
    /\ arg = [i \in Calls |-> <<>>]
    /\ met = [i \in Calls |-> {}]

\* no Chat component is shown
NoChat ==
    /\ messages = <<>>
    /\ mounted = FALSE
    /\ sweep = [done |-> FALSE, now |-> 0, before |-> <<>>]
    /\ userInput = <<>>
    /\ temporaryURLInput = <<>>
    /\ submissions = {}
    /\ submitted = 0
    /\ created = 0
    /\ msgRenderIndex = 0
    /\ autoScroll = TRUE

Init == Idle /\ NoChat

----------------------------------------------------------------------------
(* fetchContentFromURL (content.ts 55-103).                                *)

\* url and the other locals kept in one place for all invocations
FrameShared(i) == 1

\* the activation record of invocation i: every call has its own
Frame(i) == i

\* the invocations other than i that are suspended at an await
InFlight(i) == {j \in Calls \ {i} : pc[j] \notin {"idle", "done"}}

\* the invocation settles
Settle(i, result) ==
    /\ pc' = [pc EXCEPT ![i] = "done"]
    /\ outcome' = [outcome EXCEPT ![i] = result]
    /\ met' = [met EXCEPT ![i] = InFlight(i)]
    /\ UNCHANGED chatVars

\* the invocation suspends at an await
Suspend(i, at) ==
    /\ pc' = [pc EXCEPT ![i] = at]
    /\ UNCHANGED <<outcome, met>>
    /\ UNCHANGED chatVars

Record(i, steps, answer) ==
    /\ log' = [log EXCEPT ![i] = @ \o steps]
    /\ got' = [got EXCEPT ![i] = Append(@, answer)]

\* the status check left out
ResponseOkUnchecked(response) == TRUE

\* line 60: response.ok
ResponseOk(response) == response.ok

\* line 64: response.headers.get("content-type") || ""
ContentTypeOf(response) ==
    IF response.header.has THEN response.header.value ELSE <<>>

\* the content-type tests tried before the YouTube test
ClassifyHeaderFirst(url, contentType) ==
    IF Includes(contentType, ChTextHtml) THEN "html"
    ELSE IF Includes(contentType, ChAppPdf) THEN "pdf"
    ELSE IF isYouTubeLink(url) THEN "youtube"
    ELSE "unsupported"

\* the PDF test tried before the HTML test
ClassifyPdfFirst(url, contentType) ==
    IF isYouTubeLink(url) THEN "youtube"
    ELSE IF Includes(contentType, ChAppPdf) THEN "pdf"
    ELSE IF Includes(contentType, ChTextHtml) THEN "html"
    ELSE "unsupported"

\* lines 66, 76, 87, 102: which branch of the dispatch is taken
Classify(url, contentType) ==
    IF isYouTubeLink(url) THEN "youtube"
    ELSE IF Includes(contentType, ChTextHtml) THEN "html"
    ELSE IF Includes(contentType, ChAppPdf) THEN "pdf"
    ELSE "unsupported"

\* lines 68-73
YouTubeResult(url, srtContent) ==
    Content(url, srtContent, Length(srtContent), "text/plain")

\* size taken from the markdown instead of the body
HtmlResultMarkdownSize(url, htmlContent) ==
    LET markdownContent == htmlToMarkdown(htmlContent)
    IN  Content(url, markdownContent, Length(markdownContent), "text/html")

\* lines 78-84
HtmlResult(url, htmlContent) ==
    LET markdownContent == htmlToMarkdown(htmlContent)
    IN  Content(url, markdownContent, HtmlLength(htmlContent), "text/html")

\* lines 92-99
PdfResult(url, pdfBuffer) ==
    Content(url, PdfText(pdfBuffer), Length(PdfText(pdfBuffer)), "application/pdf")

\* lines 106-114
PdfBufferResult(pdfBuffer) ==
    BufferContent(PdfText(pdfBuffer), Length(PdfText(pdfBuffer)), "application/pdf")

\* line 58: the call; fetch(url) is issued and the invocation suspends
fetchContentFromURL(i, url) ==
    /\ pc[i] = "idle"
    /\ arg' = [arg EXCEPT ![i] = url]
    /\ locals' = [locals EXCEPT ![Frame(i)].url = url]
    /\ log' = [log EXCEPT ![i] = <<"GET">>]
    /\ Suspend(i, "fetch")
    /\ UNCHANGED got

\* a rejected fetch tried once more before giving up
FetchRejectedRetry(i) ==
    /\ pc[i] = "fetch"
    /\ got' = [got EXCEPT ![i] = Append(@, Answer("GET", TRUE, NoResponse))]
    /\ IF got[i] = <<>>
       THEN log' = [log EXCEPT ![i] = Append(@, "GET")] /\ Suspend(i, "fetch")
       ELSE UNCHANGED log /\ Settle(i, Failure(NetworkError))
    /\ UNCHANGED <<locals, arg>>

\* line 58: fetch rejects (no connection, or a URL it cannot parse)
FetchRejected(i) ==
    /\ pc[i] = "fetch"
    /\ Record(i, <<>>, Answer("GET", TRUE, NoResponse))
    /\ Settle(i, Failure(IF UrlParses(locals[Frame(i)].url)
                         THEN NetworkError ELSE InvalidURL))
    /\ UNCHANGED <<locals, arg>>

\* lines 58-102: fetch resolves; the code runs on to its next await, which
\* is in getYouTubeSubtitles (line 29), or line 77, or line 88
FetchResolved(i, response) ==
    /\ pc[i] = "fetch"
    /\ UrlParses(locals[Frame(i)].url)
    /\ locals' = [locals EXCEPT ![Frame(i)].response = response]
    /\ UNCHANGED arg
    /\ LET url         == locals[Frame(i)].url
           contentType == ContentTypeOf(response)
           branch      == Classify(url, contentType)
           answer      == Answer("GET", FALSE, response)
       IN  IF ~ResponseOk(response)
           THEN Record(i, <<>>, answer) /\ Settle(i, Failure(FetchFailure))
           ELSE CASE branch = "youtube" ->
                       \* getYouTubeSubtitles, lines 24-29
                       IF ~UrlParses(url)
                       THEN /\ Record(i, <<"youtube">>, answer)
                            /\ Settle(i, Failure(InvalidURL))
                       ELSE IF NoVideoId(getVideoId(url))
                       THEN /\ Record(i, <<"youtube">>, answer)
                            /\ Settle(i, Failure(InvalidInput))
                       ELSE /\ Record(i, <<"youtube", "transcript">>, answer)
                            /\ Suspend(i, "transcript")
                  [] branch = "html" ->
                       /\ Record(i, <<"html", "text">>, answer)
                       /\ Suspend(i, "text")
                  [] branch = "pdf" ->
                       /\ Record(i, <<"pdf", "axios">>, answer)
                       /\ Suspend(i, "axios")
                  [] OTHER ->
                       /\ Record(i, <<>>, answer)
                       /\ Settle(i, Failure(UnsupportedType))

\* line 29: YoutubeTranscript.fetchTranscript rejects
TranscriptRejected(i) ==
    /\ pc[i] = "transcript"
    /\ Record(i, <<>>, Answer("transcript", TRUE, <<>>))
    /\ Settle(i, Failure(TranscriptUnavailable))
    /\ UNCHANGED <<locals, arg>>

\* lines 29-41 and 67-73: the transcript arrives
TranscriptResolved(i, transcript) ==
    /\ pc[i] = "transcript"
    /\ Record(i, <<>>, Answer("transcript", FALSE, transcript))
    /\ Settle(i, YouTubeResult(locals[Frame(i)].url, SrtFromTranscript(transcript)))
    /\ UNCHANGED <<locals, arg>>

\* line 77: response.text() rejects
TextRejected(i) ==
    /\ pc[i] = "text"
    /\ Record(i, <<>>, Answer("text", TRUE, <<>>))
    /\ Settle(i, Failure(BodyReadFailure))
    /\ UNCHANGED <<locals, arg>>

\* lines 77-84: the body arrives and is converted
TextResolved(i, htmlContent) ==
    /\ pc[i] = "text"
    /\ Record(i, <<>>, Answer("text", FALSE, htmlContent))
    /\ Settle(i, IF ConversionThrows(htmlContent)
                 THEN Failure(ConversionFailure)
                 ELSE HtmlResult(locals[Frame(i)].url, htmlContent))
    /\ UNCHANGED <<locals, arg>>

\* line 88: axios.get rejects
AxiosRejected(i) ==
    /\ pc[i] = "axios"
    /\ Record(i, <<>>, Answer("axios", TRUE, NoBuffer))
    /\ Settle(i, Failure(AxiosError))
    /\ UNCHANGED <<locals, arg>>

\* lines 88-99: the binary body arrives and pdf() reads it
AxiosResolved(i, pdfBuffer) ==
    /\ pc[i] = "axios"
    /\ Record(i, <<>>, Answer("axios", FALSE, pdfBuffer))
    /\ locals' = [locals EXCEPT ![Frame(i)].pdfBuffer = pdfBuffer]
    /\ Settle(i, IF PdfThrows(pdfBuffer)
                 THEN Failure(PdfParseFailure)
                 ELSE PdfResult(locals[Frame(i)].url, pdfBuffer))
    /\ UNCHANGED arg

\* line 106: getPDFContentFromBuffer is called and awaits pdf(pdfBuffer)
getPDFContentFromBuffer(i, pdfBuffer) ==
    /\ pc[i] = "idle"
    /\ locals' = [locals EXCEPT ![Frame(i)].pdfBuffer = pdfBuffer]
    /\ log' = [log EXCEPT ![i] = <<"parse">>]
    /\ Suspend(i, "parse")
    /\ UNCHANGED <<got, arg>>

\* lines 106-114: pdf() settles
PdfParsed(i) ==
    /\ pc[i] = "parse"
    /\ LET pdfBuffer == locals[Frame(i)].pdfBuffer
       IN  /\ Record(i, <<>>, Answer("parse", PdfThrows(pdfBuffer), pdfBuffer))
           /\ Settle(i, IF PdfThrows(pdfBuffer)
                        THEN Failure(PdfParseFailure)
                        ELSE PdfBufferResult(pdfBuffer))
    /\ UNCHANGED <<locals, arg>>

----------------------------------------------------------------------------------------------------------------------------------------
(* Specifications.                                                         *)

\* the steps of invocation i, with the inputs drawn from the given sets
Step(i, urls, responses, transcripts, docs, buffers) ==
    \/ \E url \in urls : fetchContentFromURL(i, url)
    \/ FetchRejected(i)
    \/ \E response \in responses : FetchResolved(i, response)
    \/ TranscriptRejected(i)
    \/ \E transcript \in transcripts : TranscriptResolved(i, transcript)
    \/ TextRejected(i)
    \/ \E htmlContent \in docs : TextResolved(i, htmlContent)
    \/ AxiosRejected(i)
    \/ \E pdfBuffer \in buffers : AxiosResolved(i, pdfBuffer)
    \/ \E pdfBuffer \in buffers : getPDFContentFromBuffer(i, pdfBuffer)
    \/ PdfParsed(i)

\* one invocation, over all the inputs
Next == Step(1, URLS, RESPONSES, TRANSCRIPTS, DOCS, BUFFERS)

Spec == Init /\ [][Next]_vars

\* the inputs of the concurrent specification
ConcUrls        == {UrlWatch, UrlPage}
ConcResponses   == {[ok |-> TRUE, header |-> Some(ChTextHtml)],
                    [ok |-> TRUE, header |-> Some(ChAppPdf)],
                    [ok |-> FALSE, header |-> Null]}
ConcTranscripts == {<<[offset |-> 0, duration |-> 1000, text |-> "Hi"]>>}
ConcDocs        == {DocHello}
ConcBuffers     == {[valid |-> TRUE, text |-> <<"Page one", "\n\n", "Page two">>]}

\* up to NumCalls invocations in flight, their steps interleaved at the awaits
NextConc ==
    \E i \in Calls :
        Step(i, ConcUrls, ConcResponses, ConcTranscripts, ConcDocs, ConcBuffers)

SpecConc == Init /\ [][NextConc]_vars

----------------------------------------------------------------------------
(* Properties.                                                             *)

\* invocation i is a fetchContentFromURL whose fetch() has been answered
Fetched(i) == got[i] # <<>> /\ got[i][1].call = "GET"

\* ... with a response (fetch did not reject)
Responded(i) == Fetched(i) /\ ~got[i][1].rejected

\* ... with a response of a success status
RespondedOk(i) == Responded(i) /\ got[i][1].value.ok

\* the content-type header value of the response, "" when there is none
HeaderOf(i) ==
    IF got[i][1].value.header.has THEN got[i][1].value.header.value ELSE <<>>

\* the extraction paths invocation i entered, in order
Paths(i) == SelectSeq(log[i], LAMBDA e : e \in {"youtube", "html", "pdf"})

\* how often step e occurs in the log of invocation i
Count(i, e) == Cardinality({k \in 1..Len(log[i]) : log[i][k] = e})

\* C1: whenever the response to the initial GET has a non-success status,
\* the invocation has failed with FetchFailure, returned no content, and took
\* no step but the GET: no extractor entered, no transcript call, no body
\* read, no PDF re-fetch.
C1_NonOkFails ==
    \A i \in Calls :
        (Responded(i) /\ ~got[i][1].value.ok) =>
            /\ pc[i] = "done"
            /\ outcome[i] = Failure(FetchFailure)
            /\ log[i] = <<"GET">>

\* a YouTube watch URL answered with a non-success status
C1_Witness ==
    \E i \in Calls :
        /\ arg[i] = UrlWatch
        /\ Responded(i) /\ ~got[i][1].value.ok
        /\ outcome[i].kind = "error"

\* https://www.youtube.com/watch?v=<id> or https://youtube.com/watch?v=<id>
\* with a non-empty id
IsWatchUrl(url) ==
    \E prefix \in {ChHttps \o ChWww \o ChYoutube \o ChWatch \o ChQV,
                   ChHttps \o ChYoutube \o ChWatch \o ChQV} :
        MatchAt(url, 1, prefix) /\ Len(url) > Len(prefix)

\* C2 as stated: a watch URL takes the YouTube extraction path whatever
\* response its GET received, of any status.
C2_AnyResponse ==
    \A i \in Calls :
        (IsWatchUrl(arg[i]) /\ Responded(i)) => Paths(i) = <<"youtube">>

\* C2 amended: a watch URL takes the YouTube extraction path, and no other,
\* whatever response of a success status its GET received (any content-type
\* header, any body); a response of a non-success status ends the invocation
\* before the classification.
C2_AnyOkResponse ==
    \A i \in Calls :
        IsWatchUrl(arg[i]) =>
            /\ RespondedOk(i) => Paths(i) = <<"youtube">>
            /\ (Responded(i) /\ ~got[i][1].value.ok) => Paths(i) = <<>>

\* a watch URL answered with a PDF content-type that went the YouTube way
C2_Witness ==
    \E i \in Calls :
        /\ IsWatchUrl(arg[i])
        /\ RespondedOk(i)
        /\ Includes(HeaderOf(i), ChAppPdf)
        /\ outcome[i].kind = "content"
        /\ outcome[i].type = "text/plain"

\* the type tag of an extraction path
TagOf(path) ==
    CASE path = "youtube" -> "text/plain"
      [] path = "html"    -> "text/html"
      [] path = "pdf"     -> "application/pdf"

\* C3: an invocation enters at most one extraction path; after a success
\* response the path is YouTube if the URL is a YouTube link, else HTML if
\* the content-type contains "text/html", else PDF if it contains
\* "application/pdf", else none, and then the call has failed with
\* UnsupportedType having done nothing but the GET; a returned content
\* carries the tag of the one path entered.
C3_OnePath ==
    \A i \in Calls :
        LET yt   == isYouTubeLink(arg[i])
            html == Includes(HeaderOf(i), ChTextHtml)
            pdf  == Includes(HeaderOf(i), ChAppPdf)
        IN  /\ Len(Paths(i)) <= 1
            /\ RespondedOk(i) =>
                 /\ yt => Paths(i) = <<"youtube">>
                 /\ (~yt /\ html) => Paths(i) = <<"html">>
                 /\ (~yt /\ ~html /\ pdf) => Paths(i) = <<"pdf">>
                 /\ (~yt /\ ~html /\ ~pdf) =>
                      /\ pc[i] = "done"
                      /\ outcome[i] = Failure(UnsupportedType)
                      /\ log[i] = <<"GET">>
            /\ outcome[i].kind = "content" =>
                 /\ Len(Paths(i)) = 1
                 /\ outcome[i].type = TagOf(Paths(i)[1])

\* a content-type that names both types gives the HTML result
C3_Witness ==
    \E i \in Calls :
        /\ RespondedOk(i)
        /\ Includes(HeaderOf(i), ChTextHtml) /\ Includes(HeaderOf(i), ChAppPdf)
        /\ outcome[i].kind = "content"
        /\ outcome[i].type = "text/html"

\* C4: a returned size is the length of the raw HTML body on the HTML path
\* and the length of the content on the YouTube and PDF paths and from
\* getPDFContentFromBuffer.
C4_Size ==
    \A i \in Calls :
        /\ (outcome[i].kind = "content" /\ outcome[i].type = "text/html") =>
              /\ got[i][Len(got[i])].call = "text"
              /\ outcome[i].size = HtmlLength(got[i][Len(got[i])].value)
        /\ (outcome[i].kind = "content" /\ outcome[i].type # "text/html") =>
              outcome[i].size = Length(outcome[i].content)
        /\ outcome[i].kind = "buffer" =>
              outcome[i].size = Length(outcome[i].content)

\* an HTML result whose size is not the length of its markdown
C4_Witness ==
    \E i \in Calls :
        /\ outcome[i].kind = "content"
        /\ outcome[i].type = "text/html"
        /\ outcome[i].size # Length(outcome[i].content)

\* url carries a v parameter: a pair starting "v=" right behind the "?" that
\* opens the query or behind a "&" inside the query, before any fragment
HasVParam(url) ==
    \E p \in 2..Len(url) :
        /\ MatchAt(url, p, <<"v","=">>)
        /\ \A q \in 1..p : url[q] # "#"
        /\ \/ url[p - 1] = "?" /\ \A q \in 1..(p - 2) : url[q] # "?"
           \/ url[p - 1] = "&" /\ \E q \in 1..(p - 2) : url[q] = "?"

\* C5: for a URL that isYouTubeLink accepts and that has no v parameter, the
\* transcript provider is never called, and once the YouTube extraction is
\* entered the invocation has failed with InvalidInput.
C5_NoVideoId ==
    \A i \in Calls :
        (isYouTubeLink(arg[i]) /\ ~HasVParam(arg[i])) =>
            /\ Count(i, "transcript") = 0
            /\ Count(i, "youtube") > 0 =>
                 /\ pc[i] = "done"
                 /\ outcome[i] = Failure(InvalidInput)

\* a youtu.be/<id> short link that failed with InvalidInput
C5_Witness ==
    \E i \in Calls :
        /\ arg[i] = UrlShort
        /\ Count(i, "youtube") = 1
        /\ outcome[i] = Failure(InvalidInput)

\* C6 as stated: "https://youtu.be/" answered with a success response fails
\* with InvalidInput.
C6_ShortEmptyInvalid ==
    \A i \in Calls :
        (arg[i] = UrlShortEmpty /\ RespondedOk(i) /\ pc[i] = "done") =>
            outcome[i] = Failure(InvalidInput)

\* C6 amended: "https://youtu.be/" is not a YouTube link for isYouTubeLink
\* (the pattern wants a character behind the slash), so after a success
\* response the YouTube extraction is not entered, the call never fails with
\* InvalidInput and the content-type decides (HTML, PDF or UnsupportedType);
\* the short link with a path and no v parameter, "https://youtu.be/ab",
\* fails with InvalidInput whatever success response the GET returns.
C6_ShortLinks ==
    \A i \in Calls :
        /\ (arg[i] = UrlShortEmpty /\ RespondedOk(i)) =>
              /\ Count(i, "youtube") = 0
              /\ outcome[i] # Failure(InvalidInput)
              /\ Includes(HeaderOf(i), ChTextHtml) => Paths(i) = <<"html">>
              /\ (~Includes(HeaderOf(i), ChTextHtml)
                    /\ ~Includes(HeaderOf(i), ChAppPdf)) =>
                   outcome[i] = Failure(UnsupportedType)
        /\ (arg[i] = UrlShort /\ RespondedOk(i)) =>
              /\ pc[i] = "done"
              /\ outcome[i] = Failure(InvalidInput)

\* "https://youtu.be/" answered with an HTML page and returned as HTML
C6_Witness ==
    \E i \in Calls :
        /\ arg[i] = UrlShortEmpty
        /\ RespondedOk(i)
        /\ outcome[i].kind = "content"
        /\ outcome[i].type = "text/html"

\* ms as an elapsed time, HH:MM:SS,mmm with a comma before the milliseconds
SrtClock(ms) ==
    << Pad2(ms \div 3600000), ":", Pad2((ms \div 60000) % 60), ":",
       Pad2((ms \div 1000) % 60), ",", Pad3(ms % 1000) >>

RECURSIVE SrtExpected(_, _)
\* the cues of the segments from the k-th (1-based) on, in provider order
SrtExpected(transcript, k) ==
    IF k > Len(transcript) THEN <<>>
    ELSE LET item == transcript[k]
         IN  <<ToString(k), "\n">> \o SrtClock(item.offset) \o <<" --> ">>
               \o SrtClock(item.offset + item.duration)
               \o <<"\n", item.text, "\n\n">> \o SrtExpected(transcript, k + 1)

\* invocation i returned the subtitles of a transcript
Subtitled(i) ==
    /\ outcome[i].kind = "content"
    /\ outcome[i].type = "text/plain"
    /\ got[i][Len(got[i])].call = "transcript"

\* C7: the content returned for a transcript is the concatenation, in
\* provider order, of one cue per segment, "i\n<start> --> <end>\n<text>\n\n",
\* start the offset and end the offset plus the duration, each as
\* HH:MM:SS,mmm; the empty transcript gives the empty string.
C7_Subtitles ==
    \A i \in Calls :
        Subtitled(i) =>
            outcome[i].content = SrtExpected(got[i][Len(got[i])].value, 1)

\* the same for the transcripts that end within 24 hours of the start
C7_SubtitlesWithinDay ==
    \A i \in Calls :
        LET transcript == got[i][Len(got[i])].value
        IN  (/\ Subtitled(i)
             /\ \A k \in 1..Len(transcript) :
                   transcript[k].offset + transcript[k].duration < MsPerDay) =>
                outcome[i].content = SrtExpected(transcript, 1)

\* the external calls: the initial GET, the transcript provider, the binary
\* re-fetch
IsExternal(call) == call \in {"GET", "transcript", "axios"}

\* an external call failed: it rejected, or the GET got a non-success status
Failed(answer) ==
    \/ answer.rejected
    \/ answer.call = "GET" /\ ~answer.value.ok

\* C8: each external call is made at most once in an invocation; a failed
\* one is the last thing that happened in it, every call made has been
\* answered, and the invocation has settled with an error; an HTML result
\* took exactly one network request and a PDF result exactly two, the GET
\* and then the re-fetch.
C8_NoRetry ==
    \A i \in Calls :
        LET external == SelectSeq(log[i], IsExternal)
            answered == SelectSeq(got[i], LAMBDA a : IsExternal(a.call))
            requests == SelectSeq(log[i], LAMBDA e : e \in {"GET", "axios"})
        IN  /\ \A call \in {"GET", "transcript", "axios"} : Count(i, call) <= 1
            /\ \A k \in 1..Len(got[i]) :
                  (IsExternal(got[i][k].call) /\ Failed(got[i][k])) =>
                      /\ k = Len(got[i])
                      /\ Len(external) = Len(answered)
                      /\ pc[i] = "done"
                      /\ outcome[i].kind = "error"
            /\ (outcome[i].kind = "content" /\ outcome[i].type = "text/html") =>
                  requests = <<"GET">>
            /\ (outcome[i].kind = "content" /\ outcome[i].type = "application/pdf") =>
                  requests = <<"GET", "axios">>

\* a PDF result after the two requests
C8_Witness ==
    \E i \in Calls :
        /\ outcome[i].kind = "content"
        /\ outcome[i].type = "application/pdf"
        /\ Count(i, "GET") = 1 /\ Count(i, "axios") = 1

\* what a call settles to when it runs with no other call in flight: the
\* code of lines 55-115 read top to bottom, given the argument and what the
\* external calls answer, in order
RunAlone(url, answers) ==
    LET first  == answers[1]
        second == answers[2]
    IN  IF first.call = "parse"
        THEN IF first.rejected THEN Failure(PdfParseFailure)
             ELSE BufferContent(first.value.text, Length(first.value.text),
                                "application/pdf")
        ELSE IF first.rejected
        THEN Failure(IF UrlParses(url) THEN NetworkError ELSE InvalidURL)
        ELSE IF ~first.value.ok THEN Failure(FetchFailure)
        ELSE IF isYouTubeLink(url)
        THEN IF NoVideoId(getVideoId(url)) THEN Failure(InvalidInput)
             ELSE IF second.rejected THEN Failure(TranscriptUnavailable)
             ELSE LET srt == SrtFromTranscript(second.value)
                  IN  Content(url, srt, Length(srt), "text/plain")
        ELSE IF Includes(ContentTypeOf(first.value), ChTextHtml)
        THEN IF second.rejected THEN Failure(BodyReadFailure)
             ELSE IF ConversionThrows(second.value)
             THEN Failure(ConversionFailure)
             ELSE Content(url, htmlToMarkdown(second.value),
                          HtmlLength(second.value), "text/html")
        ELSE IF Includes(ContentTypeOf(first.value), ChAppPdf)
        THEN IF second.rejected THEN Failure(AxiosError)
             ELSE IF PdfThrows(second.value) THEN Failure(PdfParseFailure)
             ELSE Content(url, second.value.text, Length(second.value.text),
                          "application/pdf")
        ELSE Failure(UnsupportedType)

\* C9: whatever the interleaving of the invocations at their awaits, a
\* settled invocation has the outcome it would have had alone, with its own
\* argument and the answers its own external calls received.
C9_Independent ==
    \A i \in Calls :
        pc[i] = "done" => outcome[i] = RunAlone(arg[i], got[i])

\* two invocations for different URLs, both settled with content, one of
\* them while the other was suspended at an await
C9_Witness ==
    \E i, j \in Calls :
        /\ i # j
        /\ arg[i] # arg[j]
        /\ j \in met[i]
        /\ outcome[i].kind = "content" /\ outcome[j].kind = "content"

RECURSIVE TextOutside(_)
\* the text of a tree that lies in no comment and in no <table> subtree, in
\* document order
TextOutside(node) ==
    LET below == [k \in 1..Len(node.children) |-> TextOutside(node.children[k])]
        RECURSIVE Cat(_)
        Cat(ss) == IF ss = <<>> THEN <<>> ELSE Head(ss) \o Cat(Tail(ss))
    IN  CASE node.type = "text"     -> <<node.value>>
          [] node.type = "comment"  -> <<>>
          [] node.tagName = "table" -> <<>>
          [] OTHER                  -> Cat(below)

\* the pieces of a markdown text that are not markdown punctuation
WordsOf(markdown) ==
    SelectSeq(markdown, LAMBDA piece : piece \notin {"\n", "\n\n", "**", "<!--", "-->"})

\* C10: the markdown returned for an HTML body holds the text of the
\* document tree that lies outside every comment and every <table> subtree,
\* at any depth, in document order, and no other text.
C10_Pruned ==
    \A i \in Calls :
        (got[i] # <<>> /\ got[i][Len(got[i])].call = "text"
            /\ ~got[i][Len(got[i])].rejected) =>
            /\ outcome[i].kind = "content"
            /\ WordsOf(outcome[i].content)
                 = TextOutside(ParseHtml(got[i][Len(got[i])].value))

\* "<p>Hello</p><table>...X...</table>" gave "Hello" and no "X"
C10_Witness ==
    \E i \in Calls :
        /\ got[i] # <<>>
        /\ got[i][Len(got[i])].call = "text"
        /\ ~got[i][Len(got[i])].rejected
        /\ got[i][Len(got[i])].value = DocHello
        /\ outcome[i].content = <<"Hello", "\n">>

-----------------------------------------------------------------------------
(* The Chat component (chat.tsx).  Its state is what useState and the       *)
(* chat store hold between renders; each handler is one action.  Texts are  *)
(* sequences of pieces, as above.                                           *)

\* how many messages the sessions hold that the sweep is checked on
MaxSweepMessages == 2

\* the request timeout of app/constant.ts, in milliseconds
REQUEST_TIMEOUT_MS == 60000

\* the page size of app/constant.ts, in messages
CHAT_PAGE_SIZE == 15

\* what new Date(m.date).getTime() gives for a stored date: milliseconds, or
\* NaN for a date string that does not parse
DateAt(ms) == [valid |-> TRUE, ms |-> ms]

\* time < stopTiming; every comparison with NaN is false
Before(date, stopTiming) == date.valid /\ date.ms < stopTiming

\* JSON.stringify({ error: true, message: "empty response" }, null, "  ")
EmptyResponseJson ==
    <<"{", "\n  ", "\"error\"", ": ", "true", ",", "\n  ",
      "\"message\"", ": ", "\"empty response\"", "\n", "}">>

\* prettyObject of utils/format: the JSON text in a json code fence; the
\* fence, three grave accents, is the piece "[fence]"
prettyObject(json) == <<"[fence]", "json", "\n">> \o json \o <<"\n", "[fence]">>

Max(a, b) == IF a > b THEN a ELSE b

Min(a, b) == IF a < b THEN a ELSE b

\* the bot the session talks to: the first of DEMO_BOTS, which hides its
\* context of one system message and greets with botHello
TheBot == [hideContext |-> TRUE, contextLength |-> 1, botHello |-> TRUE]

\* context (chat.tsx 215-217), by its length
ContextLength == IF TheBot.hideContext THEN 0 ELSE TheBot.contextLength

\* getUrlPreviewMessage (chat.tsx 240-252): whether a loading preview is
\* rendered; with a URL in temporary it reads the last message of the
\* session, which has to exist
ShowPreviewUrl(msgs, temporary) ==
    temporary # <<>> /\ ~msgs[Len(msgs)].streaming

\* renderMessages.length (chat.tsx 227-267): the context, the greeting, the
\* session's messages and the loading preview
RenderLength(msgs, temporary) ==
    ContextLength
      + (IF TheBot.botHello THEN 1 ELSE 0)
      + Len(msgs)
      + (IF ShowPreviewUrl(msgs, temporary) THEN 1 ELSE 0)

\* the component is rendered for the first time on a session that holds msgs
FirstRender(msgs) ==
    /\ messages = msgs
    /\ mounted = FALSE
    /\ sweep = [done |-> FALSE, now |-> 0, before |-> <<>>]
    /\ userInput = <<>>
    /\ temporaryURLInput = <<>>
    /\ submissions = {}
    /\ submitted = 0
    /\ created = Len(msgs)
    /\ msgRenderIndex = Max(0, RenderLength(msgs, <<>>) - CHAT_PAGE_SIZE)
    /\ autoScroll = TRUE

\* a sweep that looks at the date only
StopOlderOnly(m, stopTiming) ==
    IF Before(m.date, stopTiming)
    THEN LET stopped == [m EXCEPT !.streaming = FALSE]
         IN  IF Length(m.content) = 0
             THEN [stopped EXCEPT !.isError = TRUE,
                                  !.content = prettyObject(EmptyResponseJson)]
             ELSE stopped
    ELSE m

\* the body of the forEach of the effect on mount (chat.tsx 166-179)
StopStale(m, stopTiming) ==
    IF m.isError \/ Before(m.date, stopTiming)
    THEN LET stopped == [m EXCEPT !.streaming = FALSE]
         IN  IF Length(m.content) = 0
             THEN [stopped EXCEPT !.isError = TRUE,
                                  !.content = prettyObject(EmptyResponseJson)]
             ELSE stopped
    ELSE m

\* the effect that runs once, after the first render (chat.tsx 163-184);
\* now is what Date.now() answers
Mount(now) ==
    /\ ~mounted
    /\ mounted' = TRUE
    /\ messages' = [k \in DOMAIN messages |->
                       StopStale(messages[k], now - REQUEST_TIMEOUT_MS)]
    /\ sweep' = [done |-> TRUE, now |-> now, before |-> messages]
    /\ UNCHANGED <<userInput, temporaryURLInput, submissions, submitted,
                   created, msgRenderIndex, autoScroll>>
    /\ UNCHANGED serverVars

\* the clock readings of the model: at the first, no date below is older
\* than the timeout; at the second, date 0 is and date 1 is on the edge
CLOCK == {REQUEST_TIMEOUT_MS, REQUEST_TIMEOUT_MS + 1}

Message(id, date, streaming, isError, content) ==
    [id |-> id, date |-> date, streaming |-> streaming, isError |-> isError,
     content |-> content]

\* the sessions of n messages, with ids 1..n: every message has one of
\* three dates, the last a date string that does not parse, both flags
\* either way, and no content or some
SessionsOf(n) ==
    { [k \in 1..n |-> Message(k, f[k].date, f[k].streaming, f[k].isError,
                              f[k].content)] :
        f \in [1..n -> [date : {DateAt(0), DateAt(1),
                                [valid |-> FALSE, ms |-> 0]},
                        streaming : BOOLEAN,
                        isError : BOOLEAN,
                        content : {<<>>, <<"h", "i">>}]] }

\* a session of n finished messages
FinishedSession(n) ==
    [k \in 1..n |-> Message(k, DateAt(1), FALSE, FALSE, <<"h", "i">>)]

InitSweep ==
    /\ Idle
    /\ \E n \in 0..MaxSweepMessages : \E msgs \in SessionsOf(n) :
           FirstRender(msgs)

NextSweep == \E now \in CLOCK : Mount(now)

SpecSweep == InitSweep /\ [][NextSweep]_vars

----
\* the message was in error, or older than the timeout, when the sweep ran
WasStale(m) ==
    \/ m.isError
    \/ m.date.valid /\ m.date.ms + REQUEST_TIMEOUT_MS < sweep.now

\* C11: after the sweep on mount, every message that was in error or older
\* than now - REQUEST_TIMEOUT_MS is not streaming and has content, an empty one
\* having become an error message with the "empty response" text; every
\* other message is as it was, its streaming flag included.
C11_Swept ==
    sweep.done =>
        /\ Len(messages) = Len(sweep.before)
        /\ \A k \in 1..Len(messages) :
               LET was == sweep.before[k]
                   is  == messages[k]
               IN  IF WasStale(was)
                   THEN /\ is.streaming = FALSE
                        /\ Length(is.content) > 0
                        /\ Length(was.content) = 0 =>
                               /\ is.isError = TRUE
                               /\ \E p \in 1..Len(is.content) :
                                      is.content[p] = "\"empty response\""
                   ELSE is = was

\* a session of an old, empty, streaming message and a fresh streaming one:
\* the first was stopped and turned into an error, the second still streams
C11_Witness ==
    /\ sweep.done
    /\ Len(messages) = 2
    /\ sweep.before[1].streaming /\ ~sweep.before[1].isError
    /\ sweep.before[1].content = <<>>
    /\ WasStale(sweep.before[1])
    /\ messages[1].isError /\ ~messages[1].streaming
    /\ ~WasStale(sweep.before[2])
    /\ sweep.before[2].streaming /\ messages[2].streaming

-----------------------------------------------------------------------------
(* Submitting (chat.tsx 129-156): the input box, doSubmit and the promise   *)
(* of chatStore.onUserInput that doSubmit leaves behind.                    *)

\* how many submissions the model follows
MaxSubmits == 2

IsSpace(c) == c \in {" ", "\t", "\n"}

RECURSIVE TrimStart(_)
TrimStart(s) ==
    IF s # <<>> /\ IsSpace(Head(s)) THEN TrimStart(Tail(s)) ELSE s

RECURSIVE TrimEnd(_)
TrimEnd(s) ==
    IF s # <<>> /\ IsSpace(s[Len(s)])
    THEN TrimEnd(SubSeq(s, 1, Len(s) - 1))
    ELSE s

\* String.prototype.trim
Trim(s) == TrimEnd(TrimStart(s))

\* isURL of utils/url: an http(s) scheme, then a host, and no white space
isURL(text) ==
    /\ \/ MatchAt(text, 1, ChHttps) /\ Len(text) > Len(ChHttps)
       \/ MatchAt(text, 1, <<"h","t","t","p",":","/","/">>) /\ Len(text) > 7
    /\ \A k \in 1..Len(text) : ~IsSpace(text[k])

\* what the user types: nothing, a blank, a word, a word with a blank after
\* it, two URLs
USER_INPUTS == { <<>>, <<" ">>, <<"h","i">>, <<"h","i"," ">>, UrlPage, UrlPdf }

\* the textarea's onInput (chat.tsx 129-131)
onInput(text) ==
    /\ mounted
    /\ userInput' = text
    /\ UNCHANGED <<messages, mounted, sweep, temporaryURLInput, submissions,
                   submitted, created, msgRenderIndex, autoScroll>>
    /\ UNCHANGED serverVars

\* doSubmit(userInput), from the Send button or the submit key (chat.tsx
\* 144-156).  The promise of chatStore.onUserInput is left pending with its
\* then-callback; focus and localStorage are outside the model.
doSubmit ==
    /\ mounted
    /\ IF Trim(userInput) = <<>>
       THEN UNCHANGED chatVars
       ELSE /\ submitted < MaxSubmits
            /\ temporaryURLInput' =
                   IF isURL(userInput) THEN userInput ELSE temporaryURLInput
            /\ submissions' =
                   submissions \cup {[id |-> submitted + 1, input |-> userInput]}
            /\ submitted' = submitted + 1
            /\ userInput' = <<>>
            /\ autoScroll' = TRUE
            /\ UNCHANGED <<messages, mounted, sweep, created, msgRenderIndex>>
    /\ UNCHANGED serverVars

\* the promise of submission s resolves: its then-callback runs (chat.tsx
\* 149-151)
SubmitResolved(s) ==
    /\ s \in submissions
    /\ submissions' = submissions \ {s}
    /\ temporaryURLInput' = <<>>
    /\ UNCHANGED <<messages, mounted, sweep, userInput, submitted, created,
                   msgRenderIndex, autoScroll>>
    /\ UNCHANGED serverVars

\* the promise of submission s rejects: then() was given no rejection
\* handler and there is no catch (chat.tsx 149-151), so nothing runs
SubmitRejected(s) ==
    /\ s \in submissions
    /\ submissions' = submissions \ {s}
    /\ UNCHANGED <<messages, mounted, sweep, userInput, temporaryURLInput,
                   submitted, created, msgRenderIndex, autoScroll>>
    /\ UNCHANGED serverVars

\* the session holds one finished message
InitSubmit == Idle /\ FirstRender(FinishedSession(1))

NextSubmit ==
    \/ \E now \in CLOCK : Mount(now)
    \/ \E text \in USER_INPUTS : onInput(text)
    \/ doSubmit
    \/ \E s \in submissions : SubmitResolved(s)
    \/ \E s \in submissions : SubmitRejected(s)

SpecSubmit == InitSubmit /\ [][NextSubmit]_vars

----
\* a submission of a URL is pending
UrlPending(pending) == \E s \in pending : isURL(s.input)

\* C12: while a URL submission started by doSubmit is pending,
\* temporaryURLInput holds a URL, and when no submission is pending any more,
\* resolved or rejected, temporaryURLInput is empty.
C12_PreviewWhilePending ==
    /\ UrlPending(submissions) => temporaryURLInput # <<>>
    /\ submissions = {} => temporaryURLInput = <<>>

\* the part of C12 about two submissions: a step that leaves a URL
\* submission pending does not clear the preview
C12_NotClearedByAnother ==
    [][(UrlPending(submissions') /\ temporaryURLInput # <<>>)
           => temporaryURLInput' # <<>>]_vars

\* the part of C12 about failure: with nothing pending the preview is gone
C12_NotLeftSet == submissions = {} => temporaryURLInput = <<>>

-----------------------------------------------------------------------------
(* The rendered window (chat.tsx 204-213, 269-309): msgRenderIndex, the     *)
(* scroll handlers, and the session's messages coming and going.            *)

\* how many messages the sessions hold that the window is checked on
MaxScrollMessages == 17

\* how many deletions the model follows
MaxDeletes == 2

\* setMsgRenderIndex (chat.tsx 272-276): the index it stores for newIndex,
\* clamped against the renderMessages of the current render
Clamped(newIndex) ==
    Max(0, Min(RenderLength(messages, temporaryURLInput) - CHAT_PAGE_SIZE,
               newIndex))

\* the end of the rendered window (chat.tsx 279-282)
EndRenderIndex ==
    Min(msgRenderIndex + 3 * CHAT_PAGE_SIZE,
        RenderLength(messages, temporaryURLInput))

\* the scroll positions of the model: at the top edge, in the middle, at the
\* bottom edge, at the very bottom, and a list short enough to be at both
\* edges
SCROLLS ==
    { [scrollTop |-> 0,   clientHeight |-> 100, scrollHeight |-> 1000],
      [scrollTop |-> 400, clientHeight |-> 100, scrollHeight |-> 1000],
      [scrollTop |-> 800, clientHeight |-> 100, scrollHeight |-> 1000],
      [scrollTop |-> 900, clientHeight |-> 100, scrollHeight |-> 1000],
      [scrollTop |-> 0,   clientHeight |-> 100, scrollHeight |-> 150] }

\* onChatBodyScroll (chat.tsx 286-304)
onChatBodyScroll(e) ==
    LET bottomHeight == e.scrollTop + e.clientHeight
        edgeThreshold == e.clientHeight
        isTouchTopEdge == e.scrollTop <= edgeThreshold
        isTouchBottomEdge == bottomHeight >= e.scrollHeight - edgeThreshold
        isHitBottom == bottomHeight >= e.scrollHeight - 10
        prevPageMsgIndex == msgRenderIndex - CHAT_PAGE_SIZE
        nextPageMsgIndex == msgRenderIndex + CHAT_PAGE_SIZE
    IN  /\ mounted
        /\ msgRenderIndex' =
               IF isTouchTopEdge /\ ~isTouchBottomEdge
               THEN Clamped(prevPageMsgIndex)
               ELSE IF isTouchBottomEdge
                    THEN Clamped(nextPageMsgIndex)
                    ELSE msgRenderIndex
        /\ autoScroll' = isHitBottom
        /\ UNCHANGED <<messages, mounted, sweep, userInput, temporaryURLInput,
                       submissions, submitted, created>>
        /\ UNCHANGED serverVars

\* scrollToBottom (chat.tsx 306-309), on focus of or a click in the input
\* box; scrollDomToBottom moves the DOM only
scrollToBottom ==
    /\ mounted
    /\ msgRenderIndex' =
           Clamped(RenderLength(messages, temporaryURLInput) - CHAT_PAGE_SIZE)
    /\ UNCHANGED <<messages, mounted, sweep, userInput, temporaryURLInput,
                   submissions, submitted, created, autoScroll>>
    /\ UNCHANGED serverVars

\* the Delete action is offered for message k (chat.tsx 348-354, 423-435):
\* it is in the window and not its first entry, has content, and does not
\* stream; at is where it stands in renderMessages, counted from 0
CanDelete(k) ==
    LET at == ContextLength + (IF TheBot.botHello THEN 1 ELSE 0) + (k - 1)
    IN
    /\ at > msgRenderIndex
    /\ at < EndRenderIndex
    /\ Length(messages[k].content) # 0
    /\ ~messages[k].streaming

\* onDelete(msgId) -> deleteMessage(msgId) (chat.tsx 204-213)
deleteMessage(msgId) ==
    /\ mounted
    /\ created - Len(messages) < MaxDeletes
    /\ \E k \in 1..Len(messages) : messages[k].id = msgId /\ CanDelete(k)
    /\ messages' = SelectSeq(messages, LAMBDA m : m.id # msgId)
    /\ UNCHANGED <<mounted, sweep, userInput, temporaryURLInput, submissions,
                   submitted, created, msgRenderIndex, autoScroll>>
    /\ UNCHANGED serverVars

\* the chat store appends a message to the session
AddMessage ==
    /\ mounted
    /\ created < MaxScrollMessages
    /\ messages' = Append(messages,
                     Message(created + 1, DateAt(1), FALSE, FALSE, <<"h", "i">>))
    /\ created' = created + 1
    /\ UNCHANGED <<mounted, sweep, userInput, temporaryURLInput, submissions,
                   submitted, msgRenderIndex, autoScroll>>
    /\ UNCHANGED serverVars

InitScroll ==
    /\ Idle
    /\ \E n \in 0..MaxScrollMessages : FirstRender(FinishedSession(n))

NextScroll ==
    \/ \E now \in CLOCK : Mount(now)
    \/ \E e \in SCROLLS : onChatBodyScroll(e)
    \/ scrollToBottom
    \/ \E k \in 1..Len(messages) : deleteMessage(messages[k].id)
    \/ AddMessage

SpecScroll == InitScroll /\ [][NextScroll]_vars

----
\* C13: in every state, 0 <= msgRenderIndex <= max(0, renderMessages.length -
\* CHAT_PAGE_SIZE), and the rendered window is not empty when renderMessages
\* is not.
C13_IndexInRange ==
    LET length == RenderLength(messages, temporaryURLInput)
    IN  /\ 0 <= msgRenderIndex
        /\ msgRenderIndex <= Max(0, length - CHAT_PAGE_SIZE)
        /\ length > 0 =>
               msgRenderIndex < Min(msgRenderIndex + 3 * CHAT_PAGE_SIZE, length)

\* the consequence C13 draws, alone: the rendered window is not empty when
\* renderMessages is not
C13_WindowNotEmpty ==
    RenderLength(messages, temporaryURLInput) > 0 =>
        msgRenderIndex < EndRenderIndex

\* the bound of C13 where the code does keep it: as long as no message was
\* deleted
C13_InRangeUntilDelete ==
    created = Len(messages) =>
        /\ 0 <= msgRenderIndex
        /\ msgRenderIndex
             <= Max(0, RenderLength(messages, temporaryURLInput) - CHAT_PAGE_SIZE)

====
